---- MODULE Spec2Model ----
(***************************************************************************)
(* A model of github.com/mdigger/sse.                                      *)
(*                                                                         *)
(* Server (sse.go): a registry of client channels guarded by a             *)
(* sync.RWMutex; Event/Comment/Retry fan a message out under the read      *)
(* lock, ServeHTTP joins and leaves under the write lock.                  *)
(*                                                                         *)
(* Broker (server.go): one coordinator goroutine owns the registry and     *)
(* serves the register, unregister and notifier channels.                  *)
(*                                                                         *)
(* The sync.Map variant of Server (unnamed/part_001): the registry is a    *)
(* sync.Map with an atomic counter beside it, and no lock.                 *)
(*                                                                         *)
(* A run uses one of the three.  The wire encoder (the text that Event,    *)
(* Comment and Retry build, and event.go's data methods) is a set of       *)
(* operators on character sequences, applied to every input up to a        *)
(* length.                                                                 *)
(*                                                                         *)
(* A goroutine is a process with a program counter; a channel operation,   *)
(* a lock acquisition and a critical section without blocking calls are    *)
(* one step each.                                                          *)
(***************************************************************************)
EXTENDS Integers, Sequences, FiniteSets, TLC

\* Number of ServeHTTP calls (each makes one channel, named by its handler).
NSinks == 2
\* Number of goroutines calling Event/Comment/Retry.
NProds == 2
\* Number of Event/Comment/Retry calls in a run.
MaxMsgs == 2
\* Number of Close calls in a run.
MaxCloses == 1

Sinks == 1..NSinks
Prods == 1..NProds
None == 0
\* The goroutine calling Server.Close, as a holder of Server.mu.
Closer == NSinks + 1

VARIABLES
    impl,       \* the type the application uses: "Server", "Broker" or "SyncMap"
    clients,    \* Server.clients: the channels in the map
    writer,     \* Server.mu: the goroutine inside Lock(), waiting for the readers to leave
    readers,    \* Server.mu: the goroutines holding RLock
    chClosed,   \* for each messages channel, whether close() was called on it
    hpc,        \* ServeHTTP: the position of each handler
    closed,     \* ServeHTTP: the local flag 'closed'
    stalled,    \* ServeHTTP: the client no longer reads, Fprintln(w, data) blocks
    recv,       \* ServeHTTP: the data each handler took from its channel, in order
    ppc,        \* Event/Comment/Retry: the position of each producer
    pmsg,       \* send: the data of the call (each call's data is distinct)
    todo,       \* send: the channels the range loop has still to visit
    cur,        \* send: the channel of the pending 'client <- data'
    cpc,        \* Close: the position of the caller
    closes,     \* number of Close calls made
    nextMsg,    \* the data of the next call
    crashed,    \* an unrecovered panic ended the process
    connRet,    \* the value the last Connected() returned
    closedAt,   \* history: nextMsg when the first Close returned, 0 before
    bclients,   \* Broker.clients: the channels in the sync.Map
    notifier,   \* the notifier channel's buffer
    kpc,        \* coordinator goroutine: its position
    kdata,      \* coordinator goroutine: the event taken from notifier
    ktodo,      \* coordinator goroutine: the channels Range has still to visit
    kcur,       \* coordinator goroutine: the channel of the pending 'client <- data'
    bchClosed,  \* for each messages channel, whether close() was called on it
    bhpc,       \* Broker.ServeHTTP: the position of each handler
    gpc,        \* Broker.ServeHTTP: the position of the goroutine waiting for the context
    brecv,      \* Broker.ServeHTTP: the data each handler took from its channel, in order
    bppc,       \* Data/Send/Comment/Retry: the position of each producer
    bpmsg,      \* Data/Send/Comment/Retry: the event of the call
    bnext,      \* the event of the next call
    bcpc,       \* Broker.Close: the position of the caller
    bctodo,     \* Broker.Close: the channels Range may still visit
    bcmust,     \* Broker.Close: the channels Range has to visit before it ends
    bccur,      \* Broker.Close: the channel of the pending 'broker.unregister <- client'
    bcloses,    \* number of Broker.Close calls made
    bconnRet,   \* the value the last Broker.Connected() returned
    unregs,     \* history: the unregister requests the coordinator took, per channel
    sentBy,     \* history: the producer that made each call of Data/Send/Comment/Retry
    evErr,      \* history: the calls of Server.Event that returned an error
    connected,  \* sync.Map variant of Server: the uint32 counter 'connected', as <<high, low>>
    vctodo,     \* sync.Map variant of Server: the channels the Range of Close may still visit
    wkind,      \* wire encoder: the kind of the last message built
    wname,      \* wire encoder: the name of the last Event
    wdata,      \* wire encoder: the data of the last Event, or the text of the last Comment
    wid,        \* wire encoder: the id of the last Event
    wdur,       \* wire encoder: the duration of the last Retry, in nanoseconds
    wtext,      \* wire encoder: the text Server.Event/Comment/Retry handed to send
    wbtext,     \* wire encoder: the text of data() for the same fields, as the Broker sends it
    wbsent,     \* wire encoder: whether the Broker's method put the message on notifier
    wstream     \* wire encoder: what ServeHTTP wrote to the response for wtext

svars == <<clients, writer, readers, chClosed, hpc, closed, stalled, recv, ppc, pmsg,
           todo, cur, cpc, closes, nextMsg, crashed, connRet, closedAt>>

bvars == <<bclients, notifier, kpc, kdata, ktodo, kcur, bchClosed, bhpc, gpc, brecv,
           bppc, bpmsg, bnext, bcpc, bctodo, bcmust, bccur, bcloses, bconnRet,
           unregs, sentBy>>

\* The sync.Map variant's own fields.
mvars == <<connected, vctodo>>

\* The wire encoder's inputs and outputs.
wvars == <<wkind, wname, wdata, wid, wdur, wtext, wbtext, wbsent, wstream>>

xvars == <<evErr, mvars, wvars>>

vars == <<impl, svars, bvars, xvars>>

hvars == <<hpc, closed, stalled, recv>>
pvars == <<ppc, pmsg, todo, cur, nextMsg>>
cvars == <<cpc, closes, closedAt>>

ServerInit ==
    /\ clients = {}
    /\ writer = None
    /\ readers = {}
    /\ chClosed = [s \in Sinks |-> FALSE]
    /\ hpc = [s \in Sinks |-> "start"]
    /\ closed = [s \in Sinks |-> FALSE]
    /\ stalled = [s \in Sinks |-> FALSE]
    /\ recv = [s \in Sinks |-> <<>>]
    /\ ppc = [p \in Prods |-> "idle"]
    /\ pmsg = [p \in Prods |-> None]
    /\ todo = [p \in Prods |-> {}]
    /\ cur = [p \in Prods |-> None]
    /\ cpc = "idle"
    /\ closes = 0
    /\ nextMsg = 1
    /\ crashed = FALSE
    /\ connRet = 0
    /\ closedAt = 0

BrokerInit ==
    /\ bclients = {}
    /\ notifier = <<>>
    /\ kpc = "select"
    /\ kdata = None
    /\ ktodo = {}
    /\ kcur = None
    /\ bchClosed = [s \in Sinks |-> FALSE]
    /\ bhpc = [s \in Sinks |-> "start"]
    /\ gpc = [s \in Sinks |-> "none"]
    /\ brecv = [s \in Sinks |-> <<>>]
    /\ bppc = [p \in Prods |-> "idle"]
    /\ bpmsg = [p \in Prods |-> None]
    /\ bnext = 1
    /\ bcpc = "idle"
    /\ bctodo = {}
    /\ bcmust = {}
    /\ bccur = None
    /\ bcloses = 0
    /\ bconnRet = 0
    /\ unregs = [s \in Sinks |-> 0]
    /\ sentBy = [m \in 1..MaxMsgs |-> None]

\* No call of Event has failed, the counter is zero, nothing has been encoded.
ExtraInit ==
    /\ evErr = {}
    /\ connected = <<0, 0>>
    /\ vctodo = {}
    /\ wkind = "none"
    /\ wname = <<>>
    /\ wdata = <<>>
    /\ wid = <<>>
    /\ wdur = 0
    /\ wtext = <<>>
    /\ wbtext = <<>>
    /\ wbsent = FALSE
    /\ wstream = <<>>

\* var sse = new(sse.Server)
Init == impl = "Server" /\ ServerInit /\ BrokerInit /\ ExtraInit

\* The calls of Event/Comment/Retry that have returned.
Returned == {m \in 1..(nextMsg - 1) : \A p \in Prods : ppc[p] = "idle" \/ pmsg[p] # m}

\* The set of elements of a sequence.
Range(q) == {q[i] : i \in 1..Len(q)}

----------------------------------------------------------------------------
(* Server.Connected *)

Connected ==
    /\ impl = "Server"
    /\ ~crashed
    /\ writer = None
    /\ connRet' = Cardinality(clients)
    /\ UNCHANGED <<clients, writer, readers, chClosed, hvars, pvars, cvars, crashed>>
    /\ UNCHANGED <<impl, bvars, xvars>>

----------------------------------------------------------------------------
(* Server.ServeHTTP *)

\* HReject with a slip: the Accept header is looked at after the channel was
\* put in the map.
HReject_AfterJoin(s) ==
    /\ impl = "Server"
    /\ ~crashed
    /\ hpc[s] = "start"
    /\ writer = None
    /\ readers = {}
    /\ \E flusher, accept \in BOOLEAN :
          /\ ~(flusher /\ accept)
          /\ hpc' = [hpc EXCEPT ![s] = IF ~flusher THEN "e500" ELSE "e406"]
          /\ clients' = IF flusher THEN clients \cup {s} ELSE clients
    /\ UNCHANGED <<writer, readers, chClosed, closed, stalled, recv,
                   pvars, cvars, crashed, connRet>>
    /\ UNCHANGED <<impl, bvars, xvars>>

\* Lines 112-125: no http.Flusher gives 500, another Accept media type gives 406.
HReject(s) ==
    /\ impl = "Server"
    /\ ~crashed
    /\ hpc[s] = "start"
    /\ \E flusher, accept \in BOOLEAN :
          /\ ~(flusher /\ accept)
          /\ hpc' = [hpc EXCEPT ![s] = IF ~flusher THEN "e500" ELSE "e406"]
    /\ UNCHANGED <<clients, writer, readers, chClosed, closed, stalled, recv,
                   pvars, cvars, crashed, connRet>>
    /\ UNCHANGED <<impl, bvars, xvars>>

\* Lines 126-134: the channel is made and s.mu.Lock() is called.
HJoinLock(s) ==
    /\ impl = "Server"
    /\ ~crashed
    /\ hpc[s] = "start"
    /\ writer = None
    /\ writer' = s
    /\ hpc' = [hpc EXCEPT ![s] = "joinwait"]
    /\ UNCHANGED <<clients, readers, chClosed, closed, stalled, recv,
                   pvars, cvars, crashed, connRet>>
    /\ UNCHANGED <<impl, bvars, xvars>>

\* Lines 134-139: Lock() returns, the channel is put in the map, Unlock().
HJoin(s) ==
    /\ impl = "Server"
    /\ ~crashed
    /\ hpc[s] = "joinwait"
    /\ writer = s
    /\ readers = {}
    /\ clients' = clients \cup {s}
    /\ writer' = None
    /\ hpc' = [hpc EXCEPT ![s] = "loop"]
    /\ UNCHANGED <<readers, chClosed, closed, stalled, recv, pvars, cvars, crashed, connRet>>
    /\ UNCHANGED <<impl, bvars, xvars>>

\* Line 143-147: the receive on a closed channel.
HRecvClosed(s) ==
    /\ impl = "Server"
    /\ ~crashed
    /\ hpc[s] = "loop"
    /\ chClosed[s]
    /\ closed' = [closed EXCEPT ![s] = TRUE]
    /\ hpc' = [hpc EXCEPT ![s] = "leave"]
    /\ UNCHANGED <<clients, writer, readers, chClosed, stalled, recv,
                   pvars, cvars, crashed, connRet>>
    /\ UNCHANGED <<impl, bvars, xvars>>

\* Lines 152-153: the request's context is done.
HDone(s) ==
    /\ impl = "Server"
    /\ ~crashed
    /\ hpc[s] = "loop"
    /\ hpc' = [hpc EXCEPT ![s] = "leave"]
    /\ UNCHANGED <<clients, writer, readers, chClosed, closed, stalled, recv,
                   pvars, cvars, crashed, connRet>>
    /\ UNCHANGED <<impl, bvars, xvars>>

\* Line 148: the client stops reading while the handler writes.
HStall(s) ==
    /\ impl = "Server"
    /\ ~crashed
    /\ hpc[s] = "write"
    /\ ~stalled[s]
    /\ stalled' = [stalled EXCEPT ![s] = TRUE]
    /\ UNCHANGED <<clients, writer, readers, chClosed, hpc, closed, recv,
                   pvars, cvars, crashed, connRet>>
    /\ UNCHANGED <<impl, bvars, xvars>>

\* Lines 148-151: the write succeeds, the handler flushes and selects again.
HWriteOk(s) ==
    /\ impl = "Server"
    /\ ~crashed
    /\ hpc[s] = "write"
    /\ ~stalled[s]
    /\ hpc' = [hpc EXCEPT ![s] = "loop"]
    /\ UNCHANGED <<clients, writer, readers, chClosed, closed, stalled, recv,
                   pvars, cvars, crashed, connRet>>
    /\ UNCHANGED <<impl, bvars, xvars>>

\* Lines 148-150: the write fails.
HWriteErr(s) ==
    /\ impl = "Server"
    /\ ~crashed
    /\ hpc[s] = "write"
    /\ hpc' = [hpc EXCEPT ![s] = "leave"]
    /\ UNCHANGED <<clients, writer, readers, chClosed, closed, stalled, recv,
                   pvars, cvars, crashed, connRet>>
    /\ UNCHANGED <<impl, bvars, xvars>>

\* Line 156: s.mu.Lock() is called.
HLeaveLock(s) ==
    /\ impl = "Server"
    /\ ~crashed
    /\ hpc[s] = "leave"
    /\ writer = None
    /\ writer' = s
    /\ hpc' = [hpc EXCEPT ![s] = "leavewait"]
    /\ UNCHANGED <<clients, readers, chClosed, closed, stalled, recv,
                   pvars, cvars, crashed, connRet>>
    /\ UNCHANGED <<impl, bvars, xvars>>

\* HLeave with a slip: a handler that found its channel closed takes the
\* channel to be gone from the map already and skips the delete.
HLeave_KeepsClosed(s) ==
    /\ impl = "Server"
    /\ ~crashed
    /\ hpc[s] = "leavewait"
    /\ writer = s
    /\ readers = {}
    /\ clients' = IF closed[s] THEN clients ELSE clients \ {s}
    /\ writer' = None
    /\ hpc' = [hpc EXCEPT ![s] = IF closed[s] THEN "done" ELSE "closing"]
    /\ UNCHANGED <<readers, chClosed, closed, stalled, recv, pvars, cvars,
                   crashed, connRet>>
    /\ UNCHANGED <<impl, bvars, xvars>>

\* Lines 156-158: Lock() returns, the channel is deleted from the map, Unlock().
HLeave(s) ==
    /\ impl = "Server"
    /\ ~crashed
    /\ hpc[s] = "leavewait"
    /\ writer = s
    /\ readers = {}
    /\ clients' = clients \ {s}
    /\ writer' = None
    /\ hpc' = [hpc EXCEPT ![s] = IF closed[s] THEN "done" ELSE "closing"]
    /\ UNCHANGED <<readers, chClosed, closed, stalled, recv, pvars, cvars,
                   crashed, connRet>>
    /\ UNCHANGED <<impl, bvars, xvars>>

\* Lines 159-161: close(messages); closing a closed channel panics, and net/http
\* recovers the panic of a handler.
HCloseOwn(s) ==
    /\ impl = "Server"
    /\ ~crashed
    /\ hpc[s] = "closing"
    /\ IF chClosed[s]
          THEN /\ hpc' = [hpc EXCEPT ![s] = "panic"]
               /\ UNCHANGED chClosed
          ELSE /\ hpc' = [hpc EXCEPT ![s] = "done"]
               /\ chClosed' = [chClosed EXCEPT ![s] = TRUE]
    /\ UNCHANGED <<clients, writer, readers, closed, stalled, recv,
                   pvars, cvars, crashed, connRet>>
    /\ UNCHANGED <<impl, bvars, xvars>>

----------------------------------------------------------------------------
(* Server.Event, Server.Comment, Server.Retry and Server.send *)

\* Lines 33-90: the data is built and send calls s.mu.RLock().
Publish(p) ==
    /\ impl = "Server"
    /\ ~crashed
    /\ ppc[p] = "idle"
    /\ nextMsg <= MaxMsgs
    /\ pmsg' = [pmsg EXCEPT ![p] = nextMsg]
    /\ nextMsg' = nextMsg + 1
    /\ ppc' = [ppc EXCEPT ![p] = "rlock"]
    /\ UNCHANGED <<clients, writer, readers, chClosed, hvars, todo, cur, cvars,
                   crashed, connRet>>
    /\ UNCHANGED <<impl, bvars, xvars>>

\* EventErr with a slip: the text is built and send is called before the error
\* of json.Marshal is looked at.
EventErr_Sends(p) ==
    /\ impl = "Server"
    /\ ~crashed
    /\ ppc[p] = "idle"
    /\ nextMsg <= MaxMsgs
    /\ evErr' = evErr \cup {nextMsg}
    /\ pmsg' = [pmsg EXCEPT ![p] = nextMsg]
    /\ nextMsg' = nextMsg + 1
    /\ ppc' = [ppc EXCEPT ![p] = "rlock"]
    /\ UNCHANGED <<clients, writer, readers, chClosed, hvars, todo, cur, cvars,
                   crashed, connRet>>
    /\ UNCHANGED <<impl, bvars, mvars, wvars>>

\* Lines 33-50: v is of none of the types the switch names and json.Marshal(v)
\* fails; Event returns the error.
EventErr(p) ==
    /\ impl = "Server"
    /\ ~crashed
    /\ ppc[p] = "idle"
    /\ nextMsg <= MaxMsgs
    /\ evErr' = evErr \cup {nextMsg}
    /\ nextMsg' = nextMsg + 1
    /\ UNCHANGED <<clients, writer, readers, chClosed, hvars, ppc, pmsg, todo, cur,
                   cvars, crashed, connRet>>
    /\ UNCHANGED <<impl, bvars, mvars, wvars>>

\* SendRLock with a slip: the range starts without the read lock.
SendRLock_NoLock(p) ==
    /\ impl = "Server"
    /\ ~crashed
    /\ ppc[p] = "rlock"
    /\ todo' = [todo EXCEPT ![p] = clients]
    /\ ppc' = [ppc EXCEPT ![p] = "fanout"]
    /\ UNCHANGED <<clients, writer, readers, chClosed, hvars, pmsg, cur, nextMsg, cvars,
                   crashed, connRet>>
    /\ UNCHANGED <<impl, bvars, xvars>>

\* Lines 90-91: RLock() returns and the range over the map starts.
SendRLock(p) ==
    /\ impl = "Server"
    /\ ~crashed
    /\ ppc[p] = "rlock"
    /\ writer = None
    /\ readers' = readers \cup {p}
    /\ todo' = [todo EXCEPT ![p] = clients]
    /\ ppc' = [ppc EXCEPT ![p] = "fanout"]
    /\ UNCHANGED <<clients, writer, chClosed, hvars, pmsg, cur, nextMsg, cvars,
                   crashed, connRet>>
    /\ UNCHANGED <<impl, bvars, xvars>>

\* Line 91: the range yields the next channel, in any order.
SendNext(p) ==
    /\ impl = "Server"
    /\ ~crashed
    /\ ppc[p] = "fanout"
    /\ cur[p] = None
    /\ \E c \in todo[p] :
          /\ cur' = [cur EXCEPT ![p] = c]
          /\ todo' = [todo EXCEPT ![p] = todo[p] \ {c}]
    /\ UNCHANGED <<clients, writer, readers, chClosed, hvars, ppc, pmsg, nextMsg,
                   cvars, crashed, connRet>>
    /\ UNCHANGED <<impl, bvars, xvars>>

\* Lines 92 and 143: 'client <- data' meets the handler's receive.
Deliver(p) ==
    /\ impl = "Server"
    /\ ~crashed
    /\ ppc[p] = "fanout"
    /\ cur[p] # None
    /\ ~chClosed[cur[p]]
    /\ hpc[cur[p]] = "loop"
    /\ recv' = [recv EXCEPT ![cur[p]] = Append(recv[cur[p]], pmsg[p])]
    /\ hpc' = [hpc EXCEPT ![cur[p]] = "write"]
    /\ cur' = [cur EXCEPT ![p] = None]
    /\ UNCHANGED <<clients, writer, readers, chClosed, closed, stalled,
                   ppc, pmsg, todo, nextMsg, cvars, crashed, connRet>>
    /\ UNCHANGED <<impl, bvars, xvars>>

\* Line 92: a send on a closed channel panics; nothing recovers it.
SendPanic(p) ==
    /\ impl = "Server"
    /\ ~crashed
    /\ ppc[p] = "fanout"
    /\ cur[p] # None
    /\ chClosed[cur[p]]
    /\ ppc' = [ppc EXCEPT ![p] = "panic"]
    /\ crashed' = TRUE
    /\ UNCHANGED <<clients, writer, readers, chClosed, hvars, pmsg, todo, cur, nextMsg,
                   cvars, connRet>>
    /\ UNCHANGED <<impl, bvars, xvars>>

\* Lines 93-95: the range ends, RUnlock(), the call returns.
SendReturn(p) ==
    /\ impl = "Server"
    /\ ~crashed
    /\ ppc[p] = "fanout"
    /\ cur[p] = None
    /\ todo[p] = {}
    /\ readers' = readers \ {p}
    /\ ppc' = [ppc EXCEPT ![p] = "idle"]
    /\ UNCHANGED <<clients, writer, chClosed, hvars, pmsg, todo, cur, nextMsg, cvars,
                   crashed, connRet>>
    /\ UNCHANGED <<impl, bvars, xvars>>

----------------------------------------------------------------------------
(* Server.Close *)

\* Line 99: s.mu.Lock() is called.
CloseLock ==
    /\ impl = "Server"
    /\ ~crashed
    /\ cpc = "idle"
    /\ closes < MaxCloses
    /\ writer = None
    /\ writer' = Closer
    /\ cpc' = "wait"
    /\ closes' = closes + 1
    /\ UNCHANGED <<clients, readers, chClosed, hvars, pvars, closedAt, crashed, connRet>>
    /\ UNCHANGED <<impl, bvars, xvars>>

\* Close with a slip: the channels are deleted from the map as they are closed.
Close_Deletes ==
    /\ impl = "Server"
    /\ ~crashed
    /\ cpc = "wait"
    /\ writer = Closer
    /\ readers = {}
    /\ IF \E c \in clients : chClosed[c]
          THEN /\ crashed' = TRUE
               /\ cpc' = "panic"
               /\ UNCHANGED <<clients, chClosed, writer, closedAt>>
          ELSE /\ chClosed' = [s \in Sinks |-> chClosed[s] \/ s \in clients]
               /\ clients' = {}
               /\ writer' = None
               /\ cpc' = "idle"
               /\ closedAt' = IF closedAt = 0 THEN nextMsg ELSE closedAt
               /\ UNCHANGED crashed
    /\ UNCHANGED <<readers, hvars, pvars, closes, connRet>>
    /\ UNCHANGED <<impl, bvars, xvars>>

\* Lines 99-104: Lock() returns, every channel of the map is closed, Unlock().
\* Closing a closed channel panics.
Close ==
    /\ impl = "Server"
    /\ ~crashed
    /\ cpc = "wait"
    /\ writer = Closer
    /\ readers = {}
    /\ IF \E c \in clients : chClosed[c]
          THEN /\ crashed' = TRUE
               /\ cpc' = "panic"
               /\ UNCHANGED <<chClosed, writer, closedAt>>
          ELSE /\ chClosed' = [s \in Sinks |-> chClosed[s] \/ s \in clients]
               /\ writer' = None
               /\ cpc' = "idle"
               /\ closedAt' = IF closedAt = 0 THEN nextMsg ELSE closedAt
               /\ UNCHANGED crashed
    /\ UNCHANGED <<clients, readers, hvars, pvars, closes, connRet>>
    /\ UNCHANGED <<impl, bvars, xvars>>

----------------------------------------------------------------------------
(* Broker: New and its coordinator goroutine *)

\* broker := New()
BrokerStart == impl = "Broker" /\ ServerInit /\ BrokerInit /\ ExtraInit

\* The capacity of the notifier channel.
NotifierCap == 1

\* The events whose fan-out the coordinator has completed.
Fanned ==
    {m \in 1..(bnext - 1) :
        /\ \A p \in Prods : bppc[p] = "idle" \/ bpmsg[p] # m
        /\ m \notin Range(notifier)
        /\ kdata # m}

\* Unregister with a slip: no Load, the channel is deleted and closed each time.
Unregister_NoLoad(c) ==
    /\ unregs' = [unregs EXCEPT ![c] = @ + 1]
    /\ bclients' = bclients \ {c}
    /\ bcmust' = bcmust \ {c}
    /\ IF bchClosed[c]
          THEN kpc' = "panic" /\ UNCHANGED bchClosed
          ELSE bchClosed' = [bchClosed EXCEPT ![c] = TRUE] /\ UNCHANGED kpc

\* Lines 40-44: the unregister case on channel c.  Load, then Delete and close;
\* closing a closed channel panics.
Unregister(c) ==
    /\ unregs' = [unregs EXCEPT ![c] = @ + 1]
    /\ IF c \in bclients
          THEN /\ bclients' = bclients \ {c}
               /\ bcmust' = bcmust \ {c}
               /\ IF bchClosed[c]
                     THEN kpc' = "panic" /\ UNCHANGED bchClosed
                     ELSE bchClosed' = [bchClosed EXCEPT ![c] = TRUE] /\ UNCHANGED kpc
          ELSE UNCHANGED <<bclients, bcmust, bchClosed, kpc>>

\* KRegister with the replay of lines 125-135 switched on: the newcomer is
\* sent the last event fanned out.
KRegister_Replay(s) ==
    /\ impl = "Broker"
    /\ kpc = "select"
    /\ bhpc[s] = "start"
    /\ bclients' = bclients \cup {s}
    /\ bctodo' = IF bcpc = "range" THEN bctodo \cup {s} ELSE bctodo
    /\ bhpc' = [bhpc EXCEPT ![s] = "loop"]
    /\ gpc' = [gpc EXCEPT ![s] = "waitctx"]
    /\ brecv' = [brecv EXCEPT ![s] =
                    IF Fanned = {} THEN <<>>
                    ELSE <<CHOOSE m \in Fanned : \A n \in Fanned : n <= m>>]
    /\ UNCHANGED <<notifier, kpc, kdata, ktodo, kcur, bchClosed, bppc, bpmsg,
                   bnext, sentBy, bcpc, bcmust, bccur, bcloses, bconnRet, unregs>>
    /\ UNCHANGED <<impl, svars, xvars>>

\* Lines 38-39 and 138-146: the coordinator takes the handler's new channel
\* from register and stores it; the handler starts the goroutine that waits
\* for the context and enters its loop.  A Range in progress may or may not
\* visit a key stored meanwhile.
KRegister(s) ==
    /\ impl = "Broker"
    /\ kpc = "select"
    /\ bhpc[s] = "start"
    /\ bclients' = bclients \cup {s}
    /\ bctodo' = IF bcpc = "range" THEN bctodo \cup {s} ELSE bctodo
    /\ bhpc' = [bhpc EXCEPT ![s] = "loop"]
    /\ gpc' = [gpc EXCEPT ![s] = "waitctx"]
    /\ UNCHANGED <<notifier, kpc, kdata, ktodo, kcur, bchClosed, brecv, bppc, bpmsg,
                   bnext, sentBy, bcpc, bcmust, bccur, bcloses, bconnRet, unregs>>
    /\ UNCHANGED <<impl, svars, xvars>>

\* Lines 40-44 and 145: the coordinator takes the channel the context goroutine
\* sends on unregister.
KUnregisterCtx(s) ==
    /\ impl = "Broker"
    /\ kpc = "select"
    /\ gpc[s] = "unreg"
    /\ Unregister(s)
    /\ gpc' = [gpc EXCEPT ![s] = "done"]
    /\ UNCHANGED <<notifier, kdata, ktodo, kcur, bhpc, brecv, bppc, bpmsg, bnext, sentBy,
                   bcpc, bctodo, bccur, bcloses, bconnRet>>
    /\ UNCHANGED <<impl, svars, xvars>>

\* Lines 40-44 and 98: the coordinator takes the channel Close sends on unregister.
KUnregisterClose ==
    /\ impl = "Broker"
    /\ kpc = "select"
    /\ bcpc = "range"
    /\ bccur # None
    /\ Unregister(bccur)
    /\ bccur' = None
    /\ UNCHANGED <<notifier, kdata, ktodo, kcur, bhpc, gpc, brecv, bppc, bpmsg, bnext, sentBy,
                   bcpc, bctodo, bcloses, bconnRet>>
    /\ UNCHANGED <<impl, svars, xvars>>

\* Lines 45-47: the coordinator takes an event from notifier and starts the
\* Range over the map, which it alone changes.
KNotify ==
    /\ impl = "Broker"
    /\ kpc = "select"
    /\ notifier # <<>>
    /\ kdata' = Head(notifier)
    /\ notifier' = Tail(notifier)
    /\ ktodo' = bclients
    /\ kpc' = "fanout"
    /\ UNCHANGED <<bclients, kcur, bchClosed, bhpc, gpc, brecv, bppc, bpmsg, bnext, sentBy,
                   bcpc, bctodo, bcmust, bccur, bcloses, bconnRet, unregs>>
    /\ UNCHANGED <<impl, svars, xvars>>

\* Line 47: Range yields the next channel, in any order.
KNext ==
    /\ impl = "Broker"
    /\ kpc = "fanout"
    /\ kcur = None
    /\ \E c \in ktodo :
          /\ kcur' = c
          /\ ktodo' = ktodo \ {c}
    /\ UNCHANGED <<bclients, notifier, kpc, kdata, bchClosed, bhpc, gpc, brecv, bppc,
                   bpmsg, bnext, sentBy, bcpc, bctodo, bcmust, bccur, bcloses, bconnRet,
                   unregs>>
    /\ UNCHANGED <<impl, svars, xvars>>

\* Lines 48 and 148: 'client <- data' meets the handler's receive; on a closed
\* channel it panics.
KDeliver ==
    /\ impl = "Broker"
    /\ kpc = "fanout"
    /\ kcur # None
    /\ IF bchClosed[kcur]
          THEN /\ kpc' = "panic"
               /\ UNCHANGED <<brecv, bhpc, kcur>>
          ELSE /\ bhpc[kcur] = "loop"
               /\ brecv' = [brecv EXCEPT ![kcur] = Append(brecv[kcur], kdata)]
               /\ bhpc' = [bhpc EXCEPT ![kcur] = "write"]
               /\ kcur' = None
               /\ UNCHANGED kpc
    /\ UNCHANGED <<bclients, notifier, kdata, ktodo, bchClosed, gpc, bppc, bpmsg, bnext, sentBy,
                   bcpc, bctodo, bcmust, bccur, bcloses, bconnRet, unregs>>
    /\ UNCHANGED <<impl, svars, xvars>>

\* Lines 49-51: the Range ends and the coordinator selects again.
KFanned ==
    /\ impl = "Broker"
    /\ kpc = "fanout"
    /\ kcur = None
    /\ ktodo = {}
    /\ kpc' = "select"
    /\ kdata' = None
    /\ UNCHANGED <<bclients, notifier, ktodo, kcur, bchClosed, bhpc, gpc, brecv, bppc,
                   bpmsg, bnext, sentBy, bcpc, bctodo, bcmust, bccur, bcloses, bconnRet,
                   unregs>>
    /\ UNCHANGED <<impl, svars, xvars>>

----------------------------------------------------------------------------
(* Broker.ServeHTTP *)

\* Lines 106-118: no http.Flusher gives 500, another Accept media type gives 406.
BReject(s) ==
    /\ impl = "Broker"
    /\ kpc # "panic"
    /\ bhpc[s] = "start"
    /\ \E flusher, accept \in BOOLEAN :
          /\ ~(flusher /\ accept)
          /\ bhpc' = [bhpc EXCEPT ![s] = IF ~flusher THEN "e500" ELSE "e406"]
    /\ UNCHANGED <<bclients, notifier, kpc, kdata, ktodo, kcur, bchClosed, gpc, brecv,
                   bppc, bpmsg, bnext, sentBy, bcpc, bctodo, bcmust, bccur, bcloses, bconnRet,
                   unregs>>
    /\ UNCHANGED <<impl, svars, xvars>>

\* Lines 149-152: the write succeeds, the handler flushes and receives again.
BWriteOk(s) ==
    /\ impl = "Broker"
    /\ kpc # "panic"
    /\ bhpc[s] = "write"
    /\ bhpc' = [bhpc EXCEPT ![s] = "loop"]
    /\ UNCHANGED <<bclients, notifier, kpc, kdata, ktodo, kcur, bchClosed, gpc, brecv,
                   bppc, bpmsg, bnext, sentBy, bcpc, bctodo, bcmust, bccur, bcloses, bconnRet,
                   unregs>>
    /\ UNCHANGED <<impl, svars, xvars>>

\* Lines 149-151: the write fails, the loop breaks and ServeHTTP returns.
BWriteErr(s) ==
    /\ impl = "Broker"
    /\ kpc # "panic"
    /\ bhpc[s] = "write"
    /\ bhpc' = [bhpc EXCEPT ![s] = "returned"]
    /\ UNCHANGED <<bclients, notifier, kpc, kdata, ktodo, kcur, bchClosed, gpc, brecv,
                   bppc, bpmsg, bnext, sentBy, bcpc, bctodo, bcmust, bccur, bcloses, bconnRet,
                   unregs>>
    /\ UNCHANGED <<impl, svars, xvars>>

\* Line 148: the range over the closed channel ends and ServeHTTP returns.
BLoopEnd(s) ==
    /\ impl = "Broker"
    /\ kpc # "panic"
    /\ bhpc[s] = "loop"
    /\ bchClosed[s]
    /\ bhpc' = [bhpc EXCEPT ![s] = "returned"]
    /\ UNCHANGED <<bclients, notifier, kpc, kdata, ktodo, kcur, bchClosed, gpc, brecv,
                   bppc, bpmsg, bnext, sentBy, bcpc, bctodo, bcmust, bccur, bcloses, bconnRet,
                   unregs>>
    /\ UNCHANGED <<impl, svars, xvars>>

\* Lines 142-145: the request's context is done (the client went away, or
\* ServeHTTP returned) and the goroutine sends the channel on unregister.
BCtxDone(s) ==
    /\ impl = "Broker"
    /\ kpc # "panic"
    /\ gpc[s] = "waitctx"
    /\ gpc' = [gpc EXCEPT ![s] = "unreg"]
    /\ UNCHANGED <<bclients, notifier, kpc, kdata, ktodo, kcur, bchClosed, bhpc, brecv,
                   bppc, bpmsg, bnext, sentBy, bcpc, bctodo, bcmust, bccur, bcloses, bconnRet,
                   unregs>>
    /\ UNCHANGED <<impl, svars, xvars>>

----------------------------------------------------------------------------
(* Broker.Data, Broker.Send, Broker.Comment, Broker.Retry *)

\* BPublish with a slip: the send on notifier is left to a new goroutine
\* ('go func() { broker.notifier <- event }()') and the call returns at once;
\* q is the goroutine that holds the event.
BPublish_Async(p) ==
    /\ impl = "Broker"
    /\ kpc # "panic"
    /\ bppc[p] = "idle"
    /\ bnext <= MaxMsgs
    /\ \E q \in Prods :
          /\ bppc[q] = "idle"
          /\ bpmsg' = [bpmsg EXCEPT ![q] = bnext]
          /\ bppc' = [bppc EXCEPT ![q] = "notify"]
    /\ bnext' = bnext + 1
    /\ sentBy' = [sentBy EXCEPT ![bnext] = p]
    /\ UNCHANGED <<bclients, notifier, kpc, kdata, ktodo, kcur, bchClosed, bhpc, gpc,
                   brecv, bcpc, bctodo, bcmust, bccur, bcloses, bconnRet, unregs>>
    /\ UNCHANGED <<impl, svars, xvars>>

\* Lines 70-93: the event is made and the send on notifier starts.
BPublish(p) ==
    /\ impl = "Broker"
    /\ kpc # "panic"
    /\ bppc[p] = "idle"
    /\ bnext <= MaxMsgs
    /\ bpmsg' = [bpmsg EXCEPT ![p] = bnext]
    /\ bnext' = bnext + 1
    /\ sentBy' = [sentBy EXCEPT ![bnext] = p]
    /\ bppc' = [bppc EXCEPT ![p] = "notify"]
    /\ UNCHANGED <<bclients, notifier, kpc, kdata, ktodo, kcur, bchClosed, bhpc, gpc,
                   brecv, bcpc, bctodo, bcmust, bccur, bcloses, bconnRet, unregs>>
    /\ UNCHANGED <<impl, svars, xvars>>

\* Lines 71, 80, 85, 91: 'broker.notifier <- event' puts the event in the buffer
\* and the call returns.
BNotify(p) ==
    /\ impl = "Broker"
    /\ kpc # "panic"
    /\ bppc[p] = "notify"
    /\ Len(notifier) < NotifierCap
    /\ notifier' = Append(notifier, bpmsg[p])
    /\ bppc' = [bppc EXCEPT ![p] = "idle"]
    /\ UNCHANGED <<bclients, kpc, kdata, ktodo, kcur, bchClosed, bhpc, gpc, brecv,
                   bpmsg, bnext, sentBy, bcpc, bctodo, bcmust, bccur, bcloses, bconnRet,
                   unregs>>
    /\ UNCHANGED <<impl, svars, xvars>>

----------------------------------------------------------------------------
(* Broker.Close and Broker.Connected *)

\* Lines 96-97: the Range over the map starts.
BCloseStart ==
    /\ impl = "Broker"
    /\ kpc # "panic"
    /\ bcpc = "idle"
    /\ bcloses < MaxCloses
    /\ bcloses' = bcloses + 1
    /\ bctodo' = bclients
    /\ bcmust' = bclients
    /\ bcpc' = "range"
    /\ UNCHANGED <<bclients, notifier, kpc, kdata, ktodo, kcur, bchClosed, bhpc, gpc,
                   brecv, bppc, bpmsg, bnext, sentBy, bccur, bconnRet, unregs>>
    /\ UNCHANGED <<impl, svars, xvars>>

\* Lines 97-98: Range yields a key and the send of it on unregister starts.  A
\* key deleted during the Range may still be visited.
BCloseNext ==
    /\ impl = "Broker"
    /\ kpc # "panic"
    /\ bcpc = "range"
    /\ bccur = None
    /\ \E c \in bctodo :
          /\ bccur' = c
          /\ bctodo' = bctodo \ {c}
          /\ bcmust' = bcmust \ {c}
    /\ UNCHANGED <<bclients, notifier, kpc, kdata, ktodo, kcur, bchClosed, bhpc, gpc,
                   brecv, bppc, bpmsg, bnext, sentBy, bcpc, bcloses, bconnRet, unregs>>
    /\ UNCHANGED <<impl, svars, xvars>>

\* Lines 99-101: the Range ends once it has visited every key that stayed in the map.
BCloseReturn ==
    /\ impl = "Broker"
    /\ kpc # "panic"
    /\ bcpc = "range"
    /\ bccur = None
    /\ bcmust = {}
    /\ bcpc' = "idle"
    /\ bctodo' = {}
    /\ UNCHANGED <<bclients, notifier, kpc, kdata, ktodo, kcur, bchClosed, bhpc, gpc,
                   brecv, bppc, bpmsg, bnext, sentBy, bcmust, bccur, bcloses, bconnRet,
                   unregs>>
    /\ UNCHANGED <<impl, svars, xvars>>

\* Lines 58-65: a Range that no Store or Delete overlaps counts the keys.
BConnected ==
    /\ impl = "Broker"
    /\ kpc # "panic"
    /\ bconnRet' = Cardinality(bclients)
    /\ UNCHANGED <<bclients, notifier, kpc, kdata, ktodo, kcur, bchClosed, bhpc, gpc,
                   brecv, bppc, bpmsg, bnext, sentBy, bcpc, bctodo, bcmust, bccur, bcloses,
                   unregs>>
    /\ UNCHANGED <<impl, svars, xvars>>

----------------------------------------------------------------------------
(* The wire encoder: Server.Event, Server.Comment, Server.Retry (sse.go)   *)
(* and Event.data, Comment.data, Retry.data (event.go).  A string is a     *)
(* sequence of characters.                                                 *)

\* Longest name, data, id or comment text tried.
MaxLen == 2

LF == "\n"

\* The characters of the fields tried: a letter and the newline.
Alphabet == {"a", LF}

Strings == UNION {[1..n -> Alphabet] : n \in 0..MaxLen}

\* The durations tried, in nanoseconds (time.Duration counts nanoseconds).
Durations == {-1500000, 0, 1, 999999, 1000000, 1999999, 2500000}

EventField == <<"e", "v", "e", "n", "t", ":">>
DataField == <<"d", "a", "t", "a", ":">>
IdField == <<"i", "d", ":">>
CommentField == <<":">>
RetryField == <<"r", "e", "t", "r", "y", ":">>

\* The replacement text "\\n": a backslash and the letter n.
EscapedLF == <<"\\", "n">>

\* strings.Replace(s, old, new, -1), old being one character.
RECURSIVE Replace(_, _, _)
Replace(s, old, new) ==
    IF s = <<>> THEN <<>>
    ELSE (IF Head(s) = old THEN new ELSE <<Head(s)>>) \o Replace(Tail(s), old, new)

\* strings.Split(s, sep), sep being one character: the pieces between the
\* separators, one piece more than there are separators.
RECURSIVE Split(_, _)
Split(s, sep) ==
    IF \A i \in 1..Len(s) : s[i] # sep
       THEN <<s>>
       ELSE LET i == CHOOSE k \in 1..Len(s) :
                        s[k] = sep /\ \A j \in 1..(k - 1) : s[j] # sep
            IN  <<SubSeq(s, 1, i - 1)>> \o Split(SubSeq(s, i + 1, Len(s)), sep)

\* fmt.Fprintln(buf, a, b) and fmt.Sprintln(a, b): the operands with a space
\* between them, then a newline.
Fprintln(a, b) == a \o <<" ">> \o b \o <<LF>>

\* The loop 'for _, line := range lines { fmt.Fprintln(buf, field, line) }'.
RECURSIVE WriteLines(_, _)
WriteLines(field, lines) ==
    IF lines = <<>> THEN <<>>
    ELSE Fprintln(field, Head(lines)) \o WriteLines(field, Tail(lines))

\* The decimal digits of a natural number, as %d prints them.
RECURSIVE Digits(_)
Digits(n) ==
    LET d == <<"0", "1", "2", "3", "4", "5", "6", "7", "8", "9">>
    IN  IF n < 10 THEN <<d[n + 1]>> ELSE Digits(n \div 10) \o <<d[(n % 10) + 1]>>

\* An int64 operand of Sprintln.
FormatInt(n) == IF n < 0 THEN <<"-">> \o Digits(-n) ELSE Digits(n)

\* Go's integer division, which truncates toward zero.
Quo(a, b) == IF a >= 0 THEN a \div b ELSE -((-a) \div b)

\* EventText with a slip: the id line is written before the data lines.
EventText_IdFirst(id, name, data) ==
       (IF name # <<>> THEN Fprintln(EventField, Replace(name, LF, EscapedLF)) ELSE <<>>)
    \o (IF id # <<>> THEN Fprintln(IdField, Replace(id, LF, EscapedLF)) ELSE <<>>)
    \o (IF data # <<>> THEN WriteLines(DataField, Split(data, LF)) ELSE <<>>)

\* Server.Event, lines 53-67: the text handed to send.
EventText(id, name, data) ==
       (IF name # <<>> THEN Fprintln(EventField, Replace(name, LF, EscapedLF)) ELSE <<>>)
    \o (IF data # <<>> THEN WriteLines(DataField, Split(data, LF)) ELSE <<>>)
    \o (IF id # <<>> THEN Fprintln(IdField, Replace(id, LF, EscapedLF)) ELSE <<>>)

\* EventData with a slip: the name and the id are written as they are.
EventData_Raw(e) ==
       (IF e.Name # <<>> THEN Fprintln(EventField, e.Name) ELSE <<>>)
    \o (IF e.Data # <<>> THEN WriteLines(DataField, Split(e.Data, LF)) ELSE <<>>)
    \o (IF e.ID # <<>> THEN Fprintln(IdField, e.ID) ELSE <<>>)

\* Event.data (event.go).
EventData(e) ==
       (IF e.Name # <<>> THEN Fprintln(EventField, Replace(e.Name, LF, EscapedLF)) ELSE <<>>)
    \o (IF e.Data # <<>> THEN WriteLines(DataField, Split(e.Data, LF)) ELSE <<>>)
    \o (IF e.ID # <<>> THEN Fprintln(IdField, Replace(e.ID, LF, EscapedLF)) ELSE <<>>)

\* Server.Comment, lines 76-79: the text handed to send.
CommentText(text) == WriteLines(CommentField, Split(text, LF))

\* Comment.data (event.go).
CommentData(c) == WriteLines(CommentField, Split(c, LF))

\* Server.Retry: int64(d/1000/1000).
RetryText(d) == Fprintln(RetryField, FormatInt(Quo(Quo(d, 1000), 1000)))

\* Retry.data (event.go): int64(r).
RetryData(r) == Fprintln(RetryField, FormatInt(r))

\* HandlerWrite with a slip: fmt.Fprint instead of fmt.Fprintln.
HandlerWrite_Fprint(data) == data

\* ServeHTTP, line 148: fmt.Fprintln(w, data).
HandlerWrite(data) == data \o <<LF>>

\* Server.Event(id, name, v) with a string v and Broker.Data(name, data, id),
\* and the handler's write of the text.
EventWire ==
    /\ \E id, name, data \in Strings :
          /\ wkind' = "event"
          /\ wname' = name
          /\ wdata' = data
          /\ wid' = id
          /\ wtext' = EventText(id, name, data)
          /\ wbtext' = EventData([Name |-> name, Data |-> data, ID |-> id])
          /\ wstream' = HandlerWrite(EventText(id, name, data))
    /\ wbsent' = TRUE
    /\ wdur' = 0
    /\ UNCHANGED <<impl, svars, bvars, evErr, mvars>>

\* Server.Comment(text) and Broker.Comment(message), and the handler's write.
CommentWire ==
    /\ \E text \in Strings :
          /\ wkind' = "comment"
          /\ wdata' = text
          /\ wtext' = CommentText(text)
          /\ wbtext' = CommentData(text)
          /\ wstream' = HandlerWrite(CommentText(text))
    /\ wname' = <<>>
    /\ wid' = <<>>
    /\ wbsent' = TRUE
    /\ wdur' = 0
    /\ UNCHANGED <<impl, svars, bvars, evErr, mvars>>

\* Server.Retry(d) and Broker.Retry(through), which sends only if through > 0,
\* and the handler's write.
RetryWire ==
    /\ \E d \in Durations :
          /\ wkind' = "retry"
          /\ wdur' = d
          /\ wtext' = RetryText(d)
          /\ wbsent' = (d > 0)
          /\ wbtext' = IF d > 0 THEN RetryData(d) ELSE <<>>
          /\ wstream' = HandlerWrite(RetryText(d))
    /\ wname' = <<>>
    /\ wdata' = <<>>
    /\ wid' = <<>>
    /\ UNCHANGED <<impl, svars, bvars, evErr, mvars>>

----------------------------------------------------------------------------
(* The sync.Map variant of Server (unnamed/part_001): clients is a sync.Map,  *)
(* connected an atomic counter, and there is no lock.  It uses the Server's   *)
(* variables but writer and readers.  A write that blocks is a handler that   *)
(* takes no further step.                                                     *)

\* var sse = new(sse.Server), with the variant's type.
SyncMapStart == impl = "SyncMap" /\ ServerInit /\ BrokerInit /\ ExtraInit

\* The producers whose Range over clients is in progress.
Ranging == {p \in Prods : ppc[p] = "fanout"}

\* A uint32 is kept as its two 16-bit halves, <<high, low>>.
Half == 65536

\* The sum of two uint32, modulo 2^32.
AddUint32(x, y) ==
    LET low == x[2] + y[2]
        high == x[1] + y[1] + (low \div Half)
    IN  <<high % Half, low % Half>>

\* int(x) for a uint32 x.
IntOf(x) == x[1] * Half + x[2]

\* The uint32 values 0, 1 and ^uint32(0).
Zero32 == <<0, 0>>
One32 == <<0, 1>>
AllOnes32 == <<Half - 1, Half - 1>>

\* Lines 24-26: Connected() is one atomic load; this is what a call returns in
\* the current state.
VConnected == IntOf(connected)

\* Lines 118-131: no http.Flusher gives 500, another Accept media type gives 406.
VReject(s) ==
    /\ impl = "SyncMap"
    /\ ~crashed
    /\ hpc[s] = "start"
    /\ \E flusher, accept \in BOOLEAN :
          /\ ~(flusher /\ accept)
          /\ hpc' = [hpc EXCEPT ![s] = IF ~flusher THEN "e500" ELSE "e406"]
    /\ UNCHANGED <<clients, writer, readers, chClosed, closed, stalled, recv,
                   pvars, cvars, crashed, connRet>>
    /\ UNCHANGED <<impl, bvars, evErr, mvars, wvars>>

\* Lines 132-140: the channel is made and stored.  A Range in progress may or
\* may not visit a key stored meanwhile.
VStore(s) ==
    /\ impl = "SyncMap"
    /\ ~crashed
    /\ hpc[s] = "start"
    /\ clients' = clients \cup {s}
    /\ hpc' = [hpc EXCEPT ![s] = "stored"]
    /\ \E A \in SUBSET Ranging :
          todo' = [p \in Prods |-> IF p \in A THEN todo[p] \cup {s} ELSE todo[p]]
    /\ \E visit \in BOOLEAN :
          vctodo' = IF visit /\ cpc = "range" THEN vctodo \cup {s} ELSE vctodo
    /\ UNCHANGED <<writer, readers, chClosed, closed, stalled, recv, ppc, pmsg, cur,
                   nextMsg, cvars, crashed, connRet, connected>>
    /\ UNCHANGED <<impl, bvars, evErr, wvars>>

\* Line 141: atomic.AddUint32(&s.connected, 1); the handler enters its loop.
VAdd(s) ==
    /\ impl = "SyncMap"
    /\ ~crashed
    /\ hpc[s] = "stored"
    /\ connected' = AddUint32(connected, One32)
    /\ hpc' = [hpc EXCEPT ![s] = "loop"]
    /\ UNCHANGED <<clients, writer, readers, chClosed, closed, stalled, recv, pvars,
                   cvars, crashed, connRet, vctodo>>
    /\ UNCHANGED <<impl, bvars, evErr, wvars>>

\* Lines 145-149: the receive on a closed channel.
VRecvClosed(s) ==
    /\ impl = "SyncMap"
    /\ ~crashed
    /\ hpc[s] = "loop"
    /\ chClosed[s]
    /\ closed' = [closed EXCEPT ![s] = TRUE]
    /\ hpc' = [hpc EXCEPT ![s] = "leave"]
    /\ UNCHANGED <<clients, writer, readers, chClosed, stalled, recv,
                   pvars, cvars, crashed, connRet>>
    /\ UNCHANGED <<impl, bvars, evErr, mvars, wvars>>

\* Lines 154-155: the request's context is done.
VDone(s) ==
    /\ impl = "SyncMap"
    /\ ~crashed
    /\ hpc[s] = "loop"
    /\ hpc' = [hpc EXCEPT ![s] = "leave"]
    /\ UNCHANGED <<clients, writer, readers, chClosed, closed, stalled, recv,
                   pvars, cvars, crashed, connRet>>
    /\ UNCHANGED <<impl, bvars, evErr, mvars, wvars>>

\* Lines 150-153: the write succeeds, the handler flushes and selects again.
VWriteOk(s) ==
    /\ impl = "SyncMap"
    /\ ~crashed
    /\ hpc[s] = "write"
    /\ hpc' = [hpc EXCEPT ![s] = "loop"]
    /\ UNCHANGED <<clients, writer, readers, chClosed, closed, stalled, recv,
                   pvars, cvars, crashed, connRet>>
    /\ UNCHANGED <<impl, bvars, evErr, mvars, wvars>>

\* Lines 150-152: the write fails.
VWriteErr(s) ==
    /\ impl = "SyncMap"
    /\ ~crashed
    /\ hpc[s] = "write"
    /\ hpc' = [hpc EXCEPT ![s] = "leave"]
    /\ UNCHANGED <<clients, writer, readers, chClosed, closed, stalled, recv,
                   pvars, cvars, crashed, connRet>>
    /\ UNCHANGED <<impl, bvars, evErr, mvars, wvars>>

\* Line 158: s.clients.Delete(messages).  A Range in progress may or may not
\* still visit a key deleted meanwhile.
VDelete(s) ==
    /\ impl = "SyncMap"
    /\ ~crashed
    /\ hpc[s] = "leave"
    /\ clients' = clients \ {s}
    /\ hpc' = [hpc EXCEPT ![s] = "deleted"]
    /\ \E A \in SUBSET Ranging :
          todo' = [p \in Prods |-> IF p \in A THEN todo[p] \ {s} ELSE todo[p]]
    /\ \E skip \in BOOLEAN :
          vctodo' = IF skip THEN vctodo \ {s} ELSE vctodo
    /\ UNCHANGED <<writer, readers, chClosed, closed, stalled, recv, ppc, pmsg, cur,
                   nextMsg, cvars, crashed, connRet, connected>>
    /\ UNCHANGED <<impl, bvars, evErr, wvars>>

\* Line 159: atomic.AddUint32(&s.connected, ^uint32(0)).
VSub(s) ==
    /\ impl = "SyncMap"
    /\ ~crashed
    /\ hpc[s] = "deleted"
    /\ connected' = AddUint32(connected, AllOnes32)
    /\ hpc' = [hpc EXCEPT ![s] = IF closed[s] THEN "done" ELSE "closing"]
    /\ UNCHANGED <<clients, writer, readers, chClosed, closed, stalled, recv, pvars,
                   cvars, crashed, connRet, vctodo>>
    /\ UNCHANGED <<impl, bvars, evErr, wvars>>

\* Lines 160-162: close(messages); closing a closed channel panics, and net/http
\* recovers the panic of a handler.
VCloseOwn(s) ==
    /\ impl = "SyncMap"
    /\ ~crashed
    /\ hpc[s] = "closing"
    /\ IF chClosed[s]
          THEN /\ hpc' = [hpc EXCEPT ![s] = "panic"]
               /\ UNCHANGED chClosed
          ELSE /\ hpc' = [hpc EXCEPT ![s] = "done"]
               /\ chClosed' = [chClosed EXCEPT ![s] = TRUE]
    /\ UNCHANGED <<clients, writer, readers, closed, stalled, recv,
                   pvars, cvars, crashed, connRet>>
    /\ UNCHANGED <<impl, bvars, evErr, mvars, wvars>>

\* Lines 32-35, 75-78, 89-92: Event, Comment or Retry loads the counter and
\* returns at once when it is zero; otherwise it builds the text and calls send.
VPublish(p) ==
    /\ impl = "SyncMap"
    /\ ~crashed
    /\ ppc[p] = "idle"
    /\ nextMsg <= MaxMsgs
    /\ pmsg' = [pmsg EXCEPT ![p] = nextMsg]
    /\ nextMsg' = nextMsg + 1
    /\ ppc' = [ppc EXCEPT ![p] = IF connected = Zero32 THEN "idle" ELSE "send"]
    /\ UNCHANGED <<clients, writer, readers, chClosed, hvars, todo, cur, cvars,
                   crashed, connRet>>
    /\ UNCHANGED <<impl, bvars, evErr, mvars, wvars>>

\* Line 98: the Range over clients starts.
VRange(p) ==
    /\ impl = "SyncMap"
    /\ ~crashed
    /\ ppc[p] = "send"
    /\ todo' = [todo EXCEPT ![p] = clients]
    /\ ppc' = [ppc EXCEPT ![p] = "fanout"]
    /\ UNCHANGED <<clients, writer, readers, chClosed, hvars, pmsg, cur, nextMsg, cvars,
                   crashed, connRet>>
    /\ UNCHANGED <<impl, bvars, evErr, mvars, wvars>>

\* Line 98: Range calls the function on the next key, in any order.
VNext(p) ==
    /\ impl = "SyncMap"
    /\ ~crashed
    /\ ppc[p] = "fanout"
    /\ cur[p] = None
    /\ \E c \in todo[p] :
          /\ cur' = [cur EXCEPT ![p] = c]
          /\ todo' = [todo EXCEPT ![p] = todo[p] \ {c}]
    /\ UNCHANGED <<clients, writer, readers, chClosed, hvars, ppc, pmsg, nextMsg,
                   cvars, crashed, connRet>>
    /\ UNCHANGED <<impl, bvars, evErr, mvars, wvars>>

\* Lines 99 and 145: 'client <- data' meets the handler's receive.
VDeliver(p) ==
    /\ impl = "SyncMap"
    /\ ~crashed
    /\ ppc[p] = "fanout"
    /\ cur[p] # None
    /\ ~chClosed[cur[p]]
    /\ hpc[cur[p]] = "loop"
    /\ recv' = [recv EXCEPT ![cur[p]] = Append(recv[cur[p]], pmsg[p])]
    /\ hpc' = [hpc EXCEPT ![cur[p]] = "write"]
    /\ cur' = [cur EXCEPT ![p] = None]
    /\ UNCHANGED <<clients, writer, readers, chClosed, closed, stalled,
                   ppc, pmsg, todo, nextMsg, cvars, crashed, connRet>>
    /\ UNCHANGED <<impl, bvars, evErr, mvars, wvars>>

\* Line 99: a send on a closed channel panics; nothing recovers it.
VSendPanic(p) ==
    /\ impl = "SyncMap"
    /\ ~crashed
    /\ ppc[p] = "fanout"
    /\ cur[p] # None
    /\ chClosed[cur[p]]
    /\ ppc' = [ppc EXCEPT ![p] = "panic"]
    /\ crashed' = TRUE
    /\ UNCHANGED <<clients, writer, readers, chClosed, hvars, pmsg, todo, cur, nextMsg,
                   cvars, connRet>>
    /\ UNCHANGED <<impl, bvars, evErr, mvars, wvars>>

\* Lines 100-102: the Range ends and the call returns.
VReturn(p) ==
    /\ impl = "SyncMap"
    /\ ~crashed
    /\ ppc[p] = "fanout"
    /\ cur[p] = None
    /\ todo[p] = {}
    /\ ppc' = [ppc EXCEPT ![p] = "idle"]
    /\ UNCHANGED <<clients, writer, readers, chClosed, hvars, pmsg, todo, cur, nextMsg,
                   cvars, crashed, connRet>>
    /\ UNCHANGED <<impl, bvars, evErr, mvars, wvars>>

\* Lines 105-106: Close starts its Range over clients.
VCloseStart ==
    /\ impl = "SyncMap"
    /\ ~crashed
    /\ cpc = "idle"
    /\ closes < MaxCloses
    /\ closes' = closes + 1
    /\ cpc' = "range"
    /\ vctodo' = clients
    /\ UNCHANGED <<clients, writer, readers, chClosed, hvars, pvars, closedAt, crashed,
                   connRet, connected>>
    /\ UNCHANGED <<impl, bvars, evErr, wvars>>

\* Line 107: close(client) on the next key; closing a closed channel panics.
VCloseNext ==
    /\ impl = "SyncMap"
    /\ ~crashed
    /\ cpc = "range"
    /\ \E c \in vctodo :
          /\ vctodo' = vctodo \ {c}
          /\ IF chClosed[c]
                THEN /\ crashed' = TRUE
                     /\ cpc' = "panic"
                     /\ UNCHANGED chClosed
                ELSE /\ chClosed' = [chClosed EXCEPT ![c] = TRUE]
                     /\ UNCHANGED <<crashed, cpc>>
    /\ UNCHANGED <<clients, writer, readers, hvars, pvars, closes, closedAt, connRet,
                   connected>>
    /\ UNCHANGED <<impl, bvars, evErr, wvars>>

\* Lines 108-110: the Range ends and Close returns.
VCloseReturn ==
    /\ impl = "SyncMap"
    /\ ~crashed
    /\ cpc = "range"
    /\ vctodo = {}
    /\ cpc' = "idle"
    /\ closedAt' = IF closedAt = 0 THEN nextMsg ELSE closedAt
    /\ UNCHANGED <<clients, writer, readers, chClosed, hvars, pvars, closes, crashed,
                   connRet, mvars>>
    /\ UNCHANGED <<impl, bvars, evErr, wvars>>

SyncMapNext ==
    \/ \E s \in Sinks : VReject(s)
    \/ \E s \in Sinks : VStore(s)
    \/ \E s \in Sinks : VAdd(s)
    \/ \E s \in Sinks : VRecvClosed(s)
    \/ \E s \in Sinks : VDone(s)
    \/ \E s \in Sinks : VWriteOk(s)
    \/ \E s \in Sinks : VWriteErr(s)
    \/ \E s \in Sinks : VDelete(s)
    \/ \E s \in Sinks : VSub(s)
    \/ \E s \in Sinks : VCloseOwn(s)
    \/ \E p \in Prods : VPublish(p)
    \/ \E p \in Prods : VRange(p)
    \/ \E p \in Prods : VNext(p)
    \/ \E p \in Prods : VDeliver(p)
    \/ \E p \in Prods : VSendPanic(p)
    \/ \E p \in Prods : VReturn(p)
    \/ VCloseStart
    \/ VCloseNext
    \/ VCloseReturn

SyncMapSpec == SyncMapStart /\ [][SyncMapNext]_vars

----------------------------------------------------------------------------

Next ==
    \/ Connected
    \/ \E s \in Sinks : HReject(s)
    \/ \E s \in Sinks : HJoinLock(s)
    \/ \E s \in Sinks : HJoin(s)
    \/ \E s \in Sinks : HRecvClosed(s)
    \/ \E s \in Sinks : HDone(s)
    \/ \E s \in Sinks : HStall(s)
    \/ \E s \in Sinks : HWriteOk(s)
    \/ \E s \in Sinks : HWriteErr(s)
    \/ \E s \in Sinks : HLeaveLock(s)
    \/ \E s \in Sinks : HLeave(s)
    \/ \E s \in Sinks : HCloseOwn(s)
    \/ \E p \in Prods : Publish(p)
    \/ \E p \in Prods : SendRLock(p)
    \/ \E p \in Prods : SendNext(p)
    \/ \E p \in Prods : Deliver(p)
    \/ \E p \in Prods : SendPanic(p)
    \/ \E p \in Prods : SendReturn(p)
    \/ CloseLock
    \/ Close

Spec == Init /\ [][Next]_vars

\* The Server with calls of Event whose value cannot be serialized.
EventNext == Next \/ \E p \in Prods : EventErr(p)

EventSpec == Init /\ [][EventNext]_vars

BrokerNext ==
    \/ \E s \in Sinks : KRegister(s)
    \/ \E s \in Sinks : KUnregisterCtx(s)
    \/ KUnregisterClose
    \/ KNotify
    \/ KNext
    \/ KDeliver
    \/ KFanned
    \/ \E s \in Sinks : BReject(s)
    \/ \E s \in Sinks : BWriteOk(s)
    \/ \E s \in Sinks : BWriteErr(s)
    \/ \E s \in Sinks : BLoopEnd(s)
    \/ \E s \in Sinks : BCtxDone(s)
    \/ \E p \in Prods : BPublish(p)
    \/ \E p \in Prods : BNotify(p)
    \/ BCloseStart
    \/ BCloseNext
    \/ BCloseReturn
    \/ BConnected

BrokerSpec == BrokerStart /\ [][BrokerNext]_vars

\* A run with either type.
AnyStart == impl \in {"Server", "Broker"} /\ ServerInit /\ BrokerInit /\ ExtraInit

AnyNext == Next \/ BrokerNext

AnySpec == AnyStart /\ [][AnyNext]_vars

WireNext == EventWire \/ CommentWire \/ RetryWire

\* The encoder alone, applied to every input tried.
WireSpec == AnyStart /\ [][WireNext]_vars

\* The scheduler runs every goroutine that can take a step; sync.RWMutex and
\* channels serve blocked goroutines in turn.  New requests, cancelled contexts,
\* failed or stalled writes and new calls by the application are not forced.
HandlerStep(s) ==
    HJoin(s) \/ HRecvClosed(s) \/ HWriteOk(s) \/ HLeaveLock(s) \/ HLeave(s) \/ HCloseOwn(s)

ProducerStep(p) ==
    SendRLock(p) \/ SendNext(p) \/ Deliver(p) \/ SendPanic(p) \/ SendReturn(p)

Fairness ==
    /\ \A s \in Sinks : SF_vars(HandlerStep(s))
    /\ \A p \in Prods : SF_vars(ProducerStep(p))
    /\ WF_vars(Close)

FairSpec == Init /\ [][Next]_vars /\ Fairness

\* The coordinator goroutine's steps on what is ready; a new registration
\* needs a new request.
CoordinatorStep ==
    \/ \E s \in Sinks : KUnregisterCtx(s)
    \/ KUnregisterClose
    \/ KNotify
    \/ KNext
    \/ KDeliver
    \/ KFanned

\* net/http cancels the request's context once ServeHTTP has returned.
BCtxCancelled(s) == bhpc[s] = "returned" /\ BCtxDone(s)

\* The scheduler runs the coordinator, every handler, every context goroutine
\* whose context is cancelled and Close: a step of theirs that is possible
\* stays possible until it is taken.  A producer blocked on notifier is served
\* in its turn.  Failed writes, clients going away and new calls are not forced.
BrokerFairness ==
    /\ WF_vars(CoordinatorStep)
    /\ \A s \in Sinks : WF_vars(BWriteOk(s) \/ BLoopEnd(s))
    /\ \A s \in Sinks : WF_vars(BCtxCancelled(s))
    /\ \A p \in Prods : SF_vars(BNotify(p))
    /\ WF_vars(BCloseNext \/ BCloseReturn)

BrokerFairSpec == BrokerStart /\ [][BrokerNext]_vars /\ BrokerFairness

----------------------------------------------------------------------------
\* How many times m occurs in the sequence q.
Count(q, m) == Cardinality({i \in 1..Len(q) : q[i] = m})

\* The handler of s is in its select loop and its client reads.
Reading(s) == hpc[s] \in {"loop", "write"} /\ ~stalled[s]

\* C1: the data of a send reaches every channel that is in the map while the
\* send holds the read lock, exactly once, as long as that channel's handler
\* keeps reading and the channel is not closed.
C1_DeliveredOnce ==
    /\ \A p \in Prods, s \in Sinks, m \in 1..MaxMsgs :
          (ppc[p] = "fanout" /\ pmsg[p] = m /\ s \in clients)
             ~> (Count(recv[s], m) = 1 \/ ~Reading(s) \/ chClosed[s])
    /\ [](\A s \in Sinks, m \in 1..MaxMsgs : Count(recv[s], m) <= 1)

\* a is before b in the sequence q.
Before(q, a, b) == \E i, j \in 1..Len(q) : i < j /\ q[i] = a /\ q[j] = b

\* C2: two channels that both received the data of two calls received them in
\* the same order.
C2_SameOrder ==
    \A s1, s2 \in Sinks, a, b \in 1..MaxMsgs :
        Before(recv[s1], a, b) => ~Before(recv[s2], b, a)

\* C3: with a stalled client that stays registered, every other handler in its
\* loop and no Close, each call of Event/Comment/Retry returns.
C3_StalledDoesNotBlock ==
    \A p \in Prods :
        (ppc[p] # "idle" /\ \E s \in clients : stalled[s])
           ~> \/ ppc[p] = "idle"
              \/ \E s \in Sinks : hpc[s] \in {"leave", "leavewait"}
              \/ closes > 0

\* The channels put in the map and not yet deleted from it.
Registered == {s \in Sinks : hpc[s] \in {"loop", "write", "leave", "leavewait"}}

\* The handlers that have deleted their channel from the map.
Removed == {s \in Sinks : hpc[s] \in {"closing", "done", "panic"}}

\* C4: every Connected() returns the number of channels whose insertion has
\* completed and whose deletion has not.
C4_ConnectedExact == [][Connected => connRet' = Cardinality(Registered)]_vars

C4_Witness ==
    /\ connRet = 1
    /\ Cardinality(clients) = 1
    /\ \E s \in Sinks : s \in Removed

\* C6: once Close is called, every channel then in the map is closed, its
\* handler ends and the channel leaves the map.
C6_CloseEmptiesRegistry ==
    \A s \in Sinks :
        (cpc = "wait" /\ s \in clients)
           ~> (chClosed[s] /\ s \notin clients /\ hpc[s] \in {"done", "panic"})

\* C7: a call of Event/Comment/Retry made after Close has returned never sends
\* on a closed channel.
C7_NoSendAfterClose ==
    \A p \in Prods : (closedAt > 0 /\ pmsg[p] >= closedAt) => ppc[p] # "panic"

\* C8: a channel its handler has deleted from the map is not in the map, and no
\* send has it in hand or ahead.
C8_RemovedNeverWritten ==
    \A s \in Removed :
        /\ s \notin clients
        /\ \A p \in Prods : cur[p] # s /\ s \notin todo[p]

C8_Witness ==
    \E s \in Removed, p \in Prods :
        /\ Len(recv[s]) > 0
        /\ ppc[p] = "fanout"
        /\ cur[p] # None

\* C10: a handler whose write fails deletes its channel and ends, and the
\* producers' calls return (no stalled client, no other handler leaving, no Close).
C10_WriteFailureIsLocal ==
    \A s \in Sinks :
        (hpc[s] = "write" /\ ~stalled[s])
           ~> \/ hpc[s] = "loop"
              \/ hpc[s] \in {"done", "panic"} /\ \A p \in Prods : ppc[p] = "idle"
              \/ \E x \in Sinks : stalled[x]
              \/ \E x \in Sinks \ {s} : hpc[x] \in {"leave", "leavewait"}
              \/ closes > 0

\* C5: once the fan-out of a call is complete, no channel receives its data,
\* so a handler that joins later never does.
C5_NoReplay ==
    [][/\ \A s \in Sinks, m \in Returned : Count(recv'[s], m) = Count(recv[s], m)
       /\ \A s \in Sinks, m \in Fanned : Count(brecv'[s], m) = Count(brecv[s], m)]_vars

C5_Witness ==
    \E s \in Sinks :
        /\ 1 \in Fanned
        /\ 1 \notin Range(brecv[s])
        /\ 2 \in Range(brecv[s])

\* The channels registered with the Broker for which no unregister was taken.
StillRegistered ==
    {s \in Sinks : bhpc[s] \in {"loop", "write", "returned"} /\ unregs[s] = 0}

\* C9: however many times a channel is sent on unregister, the coordinator
\* deletes it and closes it once, does not panic, and Connected() counts the
\* channels still registered.
C9_IdempotentUnregister ==
    /\ [](kpc # "panic")
    /\ [](\A s \in Sinks : unregs[s] >= 1 => s \notin bclients /\ bchClosed[s])
    /\ [](bclients = StillRegistered)
    /\ [][BConnected => bconnRet' = Cardinality(StillRegistered)]_vars

C9_Witness ==
    \E s \in Sinks :
        /\ unregs[s] >= 2
        /\ bchClosed[s]
        /\ bclients # {}
        /\ bconnRet = 1
        /\ kpc # "panic"

----------------------------------------------------------------------------
(* The wire encoder's claims *)

\* The lines of a text: what stands before each newline.
RECURSIVE WireLines(_)
WireLines(t) ==
    IF t = <<>> THEN <<>>
    ELSE IF \E i \in 1..Len(t) : t[i] = LF
            THEN LET n == CHOOSE k \in 1..Len(t) :
                             t[k] = LF /\ \A j \in 1..(k - 1) : t[j] # LF
                 IN  <<SubSeq(t, 1, n - 1)>> \o WireLines(SubSeq(t, n + 1, Len(t)))
            ELSE <<t>>

\* The text is made of whole lines.
EndsLines(t) == t = <<>> \/ t[Len(t)] = LF

HasPrefix(s, pre) == Len(s) >= Len(pre) /\ SubSeq(s, 1, Len(pre)) = pre

\* The positions of the lines of t that carry the given field.
FieldLines(t, field) ==
    {i \in 1..Len(WireLines(t)) : HasPrefix(WireLines(t)[i], field \o <<" ">>)}

\* What follows the field's name and the space.
FieldValue(line, field) == SubSeq(line, Len(field) + 2, Len(line))

\* How many newlines a string holds.
Newlines(s) == Cardinality({i \in 1..Len(s) : s[i] = LF})

\* The strings of a sequence, with a newline between each two.
RECURSIVE JoinLF(_)
JoinLF(q) ==
    IF q = <<>> THEN <<>>
    ELSE IF Len(q) = 1 THEN q[1]
    ELSE q[1] \o <<LF>> \o JoinLF(Tail(q))

\* A backslash followed by n read back as a newline.
RECURSIVE Unescape(_)
Unescape(s) ==
    IF s = <<>> THEN <<>>
    ELSE IF Len(s) >= 2 /\ s[1] = "\\" /\ s[2] = "n"
            THEN <<LF>> \o Unescape(SubSeq(s, 3, Len(s)))
            ELSE <<s[1]>> \o Unescape(Tail(s))

\* The number of lines an Event is to have: one for a name, one per line of
\* the data, one for an id.
EventLineCount ==
      (IF wname # <<>> THEN 1 ELSE 0)
    + (IF wdata # <<>> THEN Newlines(wdata) + 1 ELSE 0)
    + (IF wid # <<>> THEN 1 ELSE 0)

\* C13: the text of an Event is an 'event:' line iff the name is not empty,
\* then one 'data:' line per line of the data (none for empty data), then an
\* 'id:' line iff the id is not empty, and nothing else; Server.Event and
\* Event.data give the same text.
C13_FieldOrder ==
    wkind = "event" =>
        LET ls == WireLines(wtext)
            ev == FieldLines(wtext, EventField)
            da == FieldLines(wtext, DataField)
            il == FieldLines(wtext, IdField)
            first == CHOOSE i \in da : \A j \in da : i <= j
        IN  /\ EndsLines(wtext)
            /\ Cardinality(ev) = (IF wname # <<>> THEN 1 ELSE 0)
            /\ Cardinality(da) = (IF wdata # <<>> THEN Newlines(wdata) + 1 ELSE 0)
            /\ Cardinality(il) = (IF wid # <<>> THEN 1 ELSE 0)
            /\ ev \cup da \cup il = 1..Len(ls)
            /\ \A i \in ev, j \in da \cup il : i < j
            /\ \A i \in da, j \in il : i < j
            /\ da # {} =>
                  JoinLF([k \in 1..Cardinality(da) |->
                             FieldValue(ls[first + k - 1], DataField)]) = wdata
            /\ wbtext = wtext

C13_Witness ==
    /\ wkind = "event"
    /\ wname # <<>>
    /\ wid # <<>>
    /\ Newlines(wdata) = 1
    /\ Len(WireLines(wtext)) = 4

\* C14: whatever newlines the name and the id hold, the text has at most one
\* 'event:' line and one 'id:' line and no line more than the fields call
\* for, and the line's value is the name (the id) with each newline replaced
\* by a backslash and n.
C14_NoSplit ==
    wkind = "event" =>
        \A t \in {wtext, wbtext} :
            LET ls == WireLines(t)
                ev == FieldLines(t, EventField)
                il == FieldLines(t, IdField)
            IN  /\ Cardinality(ev) <= 1
                /\ Cardinality(il) <= 1
                /\ Len(ls) = EventLineCount
                /\ wname # <<>> => ev = {1}
                /\ wid # <<>> => il = {Len(ls)}
                /\ \A i \in ev :
                      /\ Len(FieldValue(ls[i], EventField)) = Len(wname) + Newlines(wname)
                      /\ Unescape(FieldValue(ls[i], EventField)) = wname
                /\ \A i \in il :
                      /\ Len(FieldValue(ls[i], IdField)) = Len(wid) + Newlines(wid)
                      /\ Unescape(FieldValue(ls[i], IdField)) = wid

C14_Witness ==
    /\ wkind = "event"
    /\ Newlines(wname) >= 1
    /\ Newlines(wid) >= 1
    /\ Len(WireLines(wbtext)) = 2

\* C15: what the handler writes for a message is the message's lines, none of
\* them empty, and then one empty line; for an Event with no name, no data and
\* no id it is the empty line alone.
C15_BlankLineEnds ==
    wkind # "none" =>
        LET ls == WireLines(wstream)
        IN  /\ EndsLines(wstream)
            /\ Len(ls) >= 1
            /\ ls[Len(ls)] = <<>>
            /\ \A i \in 1..(Len(ls) - 1) : ls[i] # <<>>
            /\ SubSeq(wstream, 1, Len(wstream) - 1) = wtext

C15_Witness ==
    /\ wkind = "event"
    /\ wname = <<>>
    /\ wdata = <<>>
    /\ wid = <<>>
    /\ wstream = <<LF>>

\* C16: Server.Retry(d) and Broker.Retry(d) both broadcast 'retry: <ms>', ms
\* being d in whole milliseconds, truncated.
C16_RetryMillis ==
    wkind = "retry" =>
        LET expected == RetryField \o <<" ">> \o FormatInt(Quo(wdur, 1000000)) \o <<LF>>
        IN  /\ wtext = expected
            /\ wbsent
            /\ wbtext = expected

----------------------------------------------------------------------------
\* C11: a call of Event that returns the error of json.Marshal sends nothing:
\* the step leaves the map, the lock, the channels and every send as they
\* were, and no channel ever receives anything for that call.
C11_ErrorSendsNothing ==
    /\ [](\A m \in evErr :
             /\ \A s \in Sinks : Count(recv[s], m) = 0
             /\ \A p \in Prods : ppc[p] = "idle" \/ pmsg[p] # m)
    /\ [][evErr' # evErr =>
             UNCHANGED <<clients, readers, writer, chClosed, recv, ppc, todo, cur>>]_vars

C11_Witness ==
    \E s \in Sinks :
        /\ 2 \in evErr
        /\ s \in clients
        /\ hpc[s] = "loop"
        /\ recv[s] = <<1>>

\* C12: a request answered 406 registers nothing, with either type: the step
\* leaves the registry (and so the count Connected() gives) as it was, and the
\* request's channel is never in the registry, whatever other requests do.
C12_RejectedNeverRegisters ==
    /\ [](\A s \in Sinks :
             hpc[s] = "e406" => s \notin clients /\ recv[s] = <<>> /\ ~chClosed[s])
    /\ [](\A s \in Sinks :
             bhpc[s] = "e406" =>
                 s \notin bclients /\ brecv[s] = <<>> /\ gpc[s] = "none" /\ unregs[s] = 0)
    /\ [][\A s \in Sinks :
             (hpc[s] # "e406" /\ hpc'[s] = "e406") =>
                 /\ clients' = clients
                 /\ Cardinality(Registered') = Cardinality(Registered)]_vars
    /\ [][\A s \in Sinks :
             (bhpc[s] # "e406" /\ bhpc'[s] = "e406") =>
                 /\ bclients' = bclients
                 /\ Cardinality(StillRegistered') = Cardinality(StillRegistered)]_vars

C12_Witness ==
    \E s, x \in Sinks :
        /\ hpc[s] = "e406"
        /\ x \in clients
        /\ connRet = 1

\* C17: once a handler of the Broker has returned, the coordinator deletes its
\* channel from the map, and a send of the coordinator to that channel does
\* not stay pending for ever.
C17_CoordinatorRemoves ==
    \A s \in Sinks : (bhpc[s] = "returned") ~> (s \notin bclients /\ kcur # s)

\* C18: a handler of the Broker receives only the event the coordinator holds,
\* and the coordinator takes the next event from notifier only when the
\* fan-out of the one it holds is complete; so no channel receives an event
\* twice, two events of one producer are never received in the opposite order,
\* and two channels that received the same two events received them in the
\* same order.
C18_BrokerOrder ==
    /\ [][\A s \in Sinks :
             brecv'[s] # brecv[s] =>
                 /\ kpc = "fanout"
                 /\ kdata' = kdata
                 /\ brecv'[s] = Append(brecv[s], kdata)]_vars
    /\ [][kdata' # kdata =>
             \/ kdata = None /\ notifier # <<>> /\ kdata' = Head(notifier)
             \/ kdata' = None /\ ktodo = {} /\ kcur = None]_vars
    /\ [](\A s \in Sinks, m \in 1..MaxMsgs : Count(brecv[s], m) <= 1)
    /\ [](\A s \in Sinks, a, b \in 1..MaxMsgs :
             (a < b /\ sentBy[a] # None /\ sentBy[a] = sentBy[b]) =>
                 ~Before(brecv[s], b, a))
    /\ [](\A s1, s2 \in Sinks, a, b \in 1..MaxMsgs :
             Before(brecv[s1], a, b) => ~Before(brecv[s2], b, a))

C18_Witness ==
    /\ sentBy[1] # None
    /\ sentBy[1] = sentBy[2]
    /\ \A s \in Sinks : brecv[s] = <<1, 2>>

\* C19: no channel of the Server is closed twice: neither a handler nor Close
\* closes a closed channel, and a handler about to close its channel (its
\* flag 'closed' is false) finds it open.
C19_ClosedOnce ==
    /\ cpc # "panic"
    /\ \A s \in Sinks :
          /\ hpc[s] # "panic"
          /\ (hpc[s] = "closing" /\ ~closed[s]) => ~chClosed[s]

\* C20: in the sync.Map variant no send has in hand a channel that its handler
\* has deleted from clients or that is closed, and no send panics on a closed
\* channel.
C20_NoUseOfRemoved ==
    \A p \in Prods :
        /\ ppc[p] # "panic"
        /\ cur[p] # None => (cur[p] \in clients /\ ~chClosed[cur[p]])

\* C21: in the sync.Map variant the connected counter equals the number of
\* channels stored in clients in every state, so Connected() returns the size
\* of the registry, and a call of Event, Comment or Retry returns early on a
\* zero counter only when clients is empty.
C21_CounterIsRegistrySize ==
    /\ [](VConnected = Cardinality(clients))
    /\ [][\A p \in Prods :
             (pmsg'[p] # pmsg[p] /\ ppc'[p] = "idle") => clients = {}]_vars

\* C22: in Server a step changes the set of channels in clients only when it is
\* the join or the leave of one handler of ServeHTTP, which adds or removes
\* that handler's own channel; a step of Connected(), of Event, Comment or
\* Retry (send included) or of Close leaves the set as it was.
C22_OnlyJoinLeaveChange ==
    /\ [][clients' # clients =>
             \E s \in Sinks :
                 \/ /\ hpc[s] = "joinwait"
                    /\ hpc'[s] = "loop"
                    /\ clients' = clients \cup {s}
                 \/ /\ hpc[s] = "leavewait"
                    /\ hpc'[s] \in {"done", "closing"}
                    /\ clients' = clients \ {s}]_vars
    /\ [][(connRet' # connRet \/ pvars' # pvars \/ cvars' # cvars \/ evErr' # evErr)
             => clients' = clients]_vars

C22_Witness ==
    /\ closedAt # 0
    /\ cpc = "idle"
    /\ evErr # {}
    /\ connRet > 0
    /\ connRet = Cardinality(clients)
    /\ \E s \in clients : recv[s] # <<>>

====
